---- MODULE Spec2Model ----
(***************************************************************************)
(* Model of src/src/add_party.rs (fs-dkr, "add new party"): the auxiliary  *)
(* ZK-setup generator, JoinMessage::distribute, get_party_index and        *)
(* JoinMessage::collect.                                                   *)
(*                                                                         *)
(* The elliptic-curve group is modelled by the cyclic group of prime order *)
(* CurveOrder written additively (a point is its discrete logarithm, the   *)
(* generator is 1); Paillier is the textbook scheme over small primes.     *)
(* Option<T> is a sequence of length 0 (None) or 1 (Some).                 *)
(***************************************************************************)
EXTENDS Integers, Sequences, FiniteSets, TLC

\* ------------------------------------------------------------- bounds
MaxN == 3        \* largest share count n passed to collect
MaxT == 2        \* largest threshold t passed to collect
MaxJoin == 2     \* largest number of join messages passed to collect
MaxSeed == 1     \* largest randomness seed of an honest dealer
MaxCalls == 2    \* collect calls made in one lifecycle run
MaxTries == 1    \* failed samples of the generator's loop that are followed

\* ------------------------------------------------------- Option<usize>
None == << >>
Some(x) == << x >>
IsSome(o) == Len(o) = 1
Unwrap(o) == o[1]

\* ------------------------------------------------ BigInt arithmetic
RECURSIVE ModPow(_, _, _)
ModPow(b, e, m) ==
    IF e = 0 THEN 1 % m
    ELSE LET h == ModPow(b, e \div 2, m)
             sq == (h * h) % m
         IN IF e % 2 = 1 THEN (sq * (b % m)) % m ELSE sq

\* BigInt::mod_inv: Some(inverse) when it exists, None otherwise
ModInv(a, m) ==
    LET cand == { y \in 0..(m - 1) : (a * y) % m = 1 % m }
    IN IF cand = {} THEN None ELSE Some(CHOOSE y \in cand : TRUE)

RECURSIVE SumTo(_, _)
SumTo(f, k) == IF k = 0 THEN 0 ELSE f[k] + SumTo(f, k - 1)

RECURSIVE ProdTo(_, _)
ProdTo(f, k) == IF k = 0 THEN 1 ELSE f[k] * ProdTo(f, k - 1)

\* ------------------------------------------- scalar field and curve
\* order of the scalar field P::Scalar (scaled down)
CurveOrder == 7

\* ECScalar::from(&BigInt): reduction into the scalar field
ScalarFrom(x) == x % CurveOrder

\* P::generator()
Generator == 1

PointMul(p, s) == (p * s) % CurveOrder
PointAdd(p, q) == (p + q) % CurveOrder

ScalarInv(a) == Unwrap(ModInv(a % CurveOrder, CurveOrder))

\* ------------------------------------------------------- Paillier
\* Keys::create / Paillier::keypair: the key pair of the primes p, q
PaillierKeys(p, q) ==
    [ ek |-> [ n |-> p * q, nn |-> (p * q) * (p * q) ],
      dk |-> [ p |-> p, q |-> q ] ]

\* Paillier::encrypt with randomness r
Encrypt(ek, m, r) == ((1 + (m % ek.n) * ek.n) * ModPow(r, ek.n, ek.nn)) % ek.nn

\* Paillier::add and Paillier::mul: the homomorphic operations
PaillierAdd(ek, c1, c2) == (c1 * c2) % ek.nn
PaillierMul(ek, c, k) == ModPow(c, k, ek.nn)

\* Paillier::decrypt
Decrypt(dk, c) ==
    LET n == dk.p * dk.q
        phi == (dk.p - 1) * (dk.q - 1)
        u == ModPow(c, phi, n * n)
    IN (((u - 1) \div n) * Unwrap(ModInv(phi % n, n))) % n

\* the zero-valued placeholder key
ZeroKey == [ n |-> 0, nn |-> 0 ]

\* ------------------------------------- auxiliary ZK-setup generator
\* the primes Paillier::keypair draws p and q from (scaled down)
SmallPrimes == {3, 5, 11}

\* the values generate_h1_h2_n_tilde returns once the loop has left with xhi
H1H2NTilde(p, q, h1, xhi, xhi_inv) ==
    LET n_tilde == p * q
        phi == (p - 1) * (q - 1)
        h2 == ModPow(h1, xhi, n_tilde)
    IN [ n_tilde |-> n_tilde, h1 |-> h1, h2 |-> h2,
         xhi |-> phi - xhi, xhi_inv |-> phi - xhi_inv ]

\* CompositeDLogProof::prove(statement, witness): the proof is kept as the
\* pair it was made from
Prove(statement, witness) == [ statement |-> statement, witness |-> witness ]

DlogStatementProofsBad(g) ==
    LET s1 == [ N |-> g.n_tilde, g |-> g.h1, ni |-> g.h2 ]
        s2 == [ N |-> g.n_tilde, g |-> g.h2, ni |-> g.h1 ]
    IN [ base_h1 |-> s1, base_h2 |-> s2,
         proof_h1 |-> Prove(s1, g.xhi), proof_h2 |-> Prove(s2, g.xhi) ]

\* generate_dlog_statement_proofs, given what generate_h1_h2_n_tilde returned
DlogStatementProofs(g) ==
    LET s1 == [ N |-> g.n_tilde, g |-> g.h1, ni |-> g.h2 ]
        s2 == [ N |-> g.n_tilde, g |-> g.h2, ni |-> g.h1 ]
    IN [ base_h1 |-> s1, base_h2 |-> s2,
         proof_h1 |-> Prove(s1, g.xhi), proof_h2 |-> Prove(s2, g.xhi_inv) ]

\* one complete run of the generator with the samples p, q, h1, xhi
Generated(p, q, h1, xhi) ==
    DlogStatementProofs(
        H1H2NTilde(p, q, h1, xhi, Unwrap(ModInv(xhi, (p - 1) * (q - 1)))))

\* ------------------------------------------------ collect: the steps
\* usize as u16
AsU16(x) == x % 65536

\* RefreshMessage::validate_collect: more than t messages, every vector of
\* length n
ValidateCollect(msgs, t, n) ==
    /\ Len(msgs) > t
    /\ \A j \in 1..Len(msgs) :
        /\ Len(msgs[j].points_committed_vec) = n
        /\ Len(msgs[j].points_encrypted_vec) = n

\* JoinMessage::get_party_index
GetPartyIndex(join_message) ==
    IF IsSome(join_message.party_index)
    THEN [ ok |-> TRUE, value |-> Unwrap(join_message.party_index), err |-> "" ]
    ELSE [ ok |-> FALSE, value |-> 0, err |-> "NewPartyUnassignedIndexError" ]

\* the loop over join_messages: the position of the entry at which
\* get_party_index fails and ? returns, 0 when the loop runs to its end
FirstUnassignedFirstOnly(joins) ==
    IF Len(joins) > 0 /\ ~GetPartyIndex(joins[1]).ok THEN 1 ELSE 0

FirstUnassigned(joins) ==
    LET bad == { j \in 1..Len(joins) : ~GetPartyIndex(joins[j]).ok }
    IN IF bad = {} THEN 0 ELSE CHOOSE j \in bad : \A k \in bad : j <= k

\* VerifiableSS::map_share_to_new_params: the Lagrange coefficient at 0 of
\* the point indices[j] among the points of indices
Lagrange(indices, j) ==
    LET terms == [ m \in 1..Len(indices) |->
                    IF m = j THEN 1
                    ELSE (indices[m] *
                          ScalarInv(indices[m] - indices[j] + CurveOrder))
                         % CurveOrder ]
    IN ProdTo(terms, Len(indices)) % CurveOrder

RECURSIVE FoldAdd(_, _, _, _)
FoldAdd(ek, cs, k, acc) ==
    IF k > Len(cs) THEN acc
    ELSE FoldAdd(ek, cs, k + 1, PaillierAdd(ek, acc, cs[k]))

\* RefreshMessage::get_ciphertext_sum: the Lagrange coefficients of the
\* first t+1 senders, in message order, and the homomorphic combination
\* of the ciphertexts addressed to party_index
GetCiphertextSum(msgs, party_index, t, ek) ==
    LET indices == [ j \in 1..(t + 1) |-> msgs[j].party_index ]
        li == [ j \in 1..(t + 1) |-> Lagrange(indices, j) ]
        mapped == [ j \in 1..(t + 1) |->
                     PaillierMul(ek, msgs[j].points_encrypted_vec[party_index],
                                 li[j]) ]
    IN [ cipher_text_sum |-> FoldAdd(ek, mapped, 1, Encrypt(ek, 0, 1)),
         li_vec |-> li ]

\* the index into points_encrypted_vec is in range
CiphertextSumDefined(msgs, party_index) ==
    party_index \in 1..Len(msgs[1].points_encrypted_vec)

KeysLinearOfUnreduced(new_share) ==
    [ x_i |-> new_share, y |-> PointMul(Generator, new_share) ]

\* new_share_fe, key_linear_x_i, key_linear_y and keys_linear
KeysLinearOf(new_share) ==
    [ x_i |-> ScalarFrom(new_share),
      y |-> PointMul(Generator, ScalarFrom(new_share)) ]

RECURSIVE PkAcc(_, _, _, _, _)
PkAcc(msgs, li, i, j, last) ==
    IF j > last THEN 0
    ELSE PointAdd(PointMul(msgs[j].points_committed_vec[i], li[j]),
                  PkAcc(msgs, li, i, j + 1, last))

PkVecOfShort(msgs, li, t, n) ==
    [ i \in 1..n |-> PkAcc(msgs, li, i, 1, t) ]

\* pk_vec: the entry of message 0 first, then the loop over j in 1..t+1
PkVecOf(msgs, li, t, n) ==
    [ i \in 1..n |-> PkAcc(msgs, li, i, 1, t + 1) ]

\* collecting (index, value) pairs into a HashMap: the last pair of an
\* index is the one kept
MapGet(pairs, k) ==
    LET hits == { i \in 1..Len(pairs) : pairs[i][1] = k }
    IN IF hits = {} THEN None
       ELSE Some(pairs[CHOOSE i \in hits : \A h \in hits : h <= i][2])

\* available_parties: refresh messages, then the caller, then join messages
AvailableParties(msgs, party_index, own_ek, joins) ==
    [ j \in 1..Len(msgs) |-> << msgs[j].party_index, msgs[j].ek >> ]
    \o << << party_index, own_ek >> >>
    \o [ j \in 1..Len(joins) |-> << Unwrap(joins[j].party_index), joins[j].ek >> ]

\* available_h1_h2_ntilde_vec
AvailableStatements(msgs, party_index, self, joins) ==
    [ j \in 1..Len(msgs) |-> << msgs[j].party_index, msgs[j].dlog_statement >> ]
    \o << << party_index, self.dlog_statement_base_h1 >> >>
    \o [ j \in 1..Len(joins) |->
          << Unwrap(joins[j].party_index), joins[j].dlog_statement_base_h1 >> ]

PaillierKeyVecOfDropping(available, n) ==
    LET known == { k \in 1..n : MapGet(available, k) # None }
    IN [ i \in 1..Cardinality(known) |->
          Unwrap(MapGet(available,
                        CHOOSE k \in known :
                            Cardinality({ m \in known : m < k }) = i - 1)) ]

\* paillier_key_vec: one entry per party in 1..n+1, the zero key where the
\* map has none
PaillierKeyVecOf(available, n) ==
    [ party \in 1..n |->
        IF MapGet(available, party) = None THEN ZeroKey
        ELSE Unwrap(MapGet(available, party)) ]

\* h1_h2_ntilde_vec: fresh[party] is what generate_dlog_statement_proofs().0
\* returned for a party the map has no statement of
StatementVecOf(available, n, fresh) ==
    [ party \in 1..n |->
        IF MapGet(available, party) = None THEN fresh[party]
        ELSE Unwrap(MapGet(available, party)) ]

PublicKeysAgreeFirstOnly(msgs) ==
    \A j \in 1..(IF Len(msgs) > 1 THEN 2 ELSE Len(msgs)) :
        msgs[j].public_key = msgs[1].public_key

\* the loop comparing every public_key with that of refresh_messages[0]
PublicKeysAgree(msgs) ==
    \A j \in 1..Len(msgs) : msgs[j].public_key = msgs[1].public_key

\* VerifiableSS::share(t, n, secret): the commitments to a polynomial with
\* constant term secret, its other coefficients drawn from seed
VssShare(t, n, secret, seed) ==
    [ parameters |-> [ threshold |-> t, share_count |-> n ],
      commitments |-> [ m \in 1..(t + 1) |->
                         IF m = 1 THEN PointMul(Generator, secret)
                         ELSE PointMul(Generator, (seed + m) % CurveOrder) ] ]

\* ------------------------------------------- the messages collect is given
\* value of the polynomial with coefficients coefs (constant term first)
EvalPoly(coefs, x) ==
    LET terms == [ m \in 1..Len(coefs) |-> coefs[m] * ModPow(x, m - 1, CurveOrder) ]
    IN SumTo(terms, Len(coefs)) % CurveOrder

\* a dealer's polynomial of degree t: constant term c0, the rest from seed
SeedPoly(c0, seed, t) ==
    [ m \in 1..(t + 1) |-> IF m = 1 THEN c0 ELSE (seed + m * m) % CurveOrder ]

\* public material of the existing party a and of the join message at
\* position j: values that tell their sources apart
ExistingEk(a) == [ n |-> 300 + a, nn |-> (300 + a) * (300 + a) ]
ExistingStatement(a) == Generated(3, 11, 1 + a, 3).base_h1
JoinerEk(j) == [ n |-> 400 + j, nn |-> (400 + j) * (400 + j) ]
JoinerStatement(j) == Generated(5, 11, 1 + j, 7).base_h1

\* RefreshMessage of the existing party a, who deals its old share with the
\* polynomial f and encrypts the point of slot k under slot_ek[k]
RefreshMessageOf(a, public_key, f, slot_ek, r, n) ==
    [ party_index |-> a,
      ek |-> ExistingEk(a),
      dlog_statement |-> ExistingStatement(a),
      public_key |-> public_key,
      points_committed_vec |->
        [ k \in 1..n |-> PointMul(Generator, EvalPoly(f, k)) ],
      points_encrypted_vec |->
        [ k \in 1..n |-> Encrypt(slot_ek[k], EvalPoly(f, k), r) ] ]

\* the JoinMessage distribute builds from its key pair and its setup
JoinMessageOf(paillier_key_pair, setup) ==
    [ ek |-> paillier_key_pair.ek,
      dk_correctness_proof |-> [ n |-> paillier_key_pair.ek.n ],
      dlog_statement_base_h1 |-> setup.base_h1,
      dlog_statement_base_h2 |-> setup.base_h2,
      composite_dlog_proof_base_h1 |-> setup.proof_h1,
      composite_dlog_proof_base_h2 |-> setup.proof_h2,
      party_index |-> None ]

\* a broadcast JoinMessage of another joining party, at position j
PeerJoinMessage(j, index) ==
    [ ek |-> JoinerEk(j),
      dk_correctness_proof |-> [ n |-> JoinerEk(j).n ],
      dlog_statement_base_h1 |-> JoinerStatement(j),
      dlog_statement_base_h2 |-> Generated(5, 11, 1 + j, 7).base_h2,
      composite_dlog_proof_base_h1 |-> Generated(5, 11, 1 + j, 7).proof_h1,
      composite_dlog_proof_base_h2 |-> Generated(5, 11, 1 + j, 7).proof_h2,
      party_index |-> index ]

\* the key pairs Keys::create can return and the setups the generator can
OwnDraws ==
    { [ keys |-> PaillierKeys(11, 19), setup |-> Generated(3, 5, 2, 3) ],
      [ keys |-> PaillierKeys(11, 17), setup |-> Generated(3, 5, 7, 5) ] }
FreshStatements == { Generated(3, 5, 4, 3).base_h1, Generated(5, 11, 6, 3).base_h1 }

\* the honest batch: the secret s is shared by SeedPoly(s, pseed, t); the
\* sender at position j (party indices[j]) deals its share with seed
\* seeds[j]; message deviant (0: none) carries another public_key; every
\* slot is encrypted under own_ek
Polys(s, pseed, indices, seeds, t) ==
    [ j \in 1..Len(indices) |->
        SeedPoly(EvalPoly(SeedPoly(s, pseed, t), indices[j]), seeds[j], t) ]

Batch(s, pseed, indices, seeds, deviant, own_ek, t, n) ==
    [ j \in 1..Len(indices) |->
        RefreshMessageOf(indices[j],
                         IF j = deviant THEN PointMul(Generator, (s + 1) % CurveOrder)
                         ELSE PointMul(Generator, s),
                         Polys(s, pseed, indices, seeds, t)[j],
                         [ k \in 1..n |-> own_ek ],
                         1 + seeds[j], n) ]

InjectiveSeqs(n, len) ==
    { q \in [ 1..len -> 1..n ] : \A a, b \in 1..len : a # b => q[a] # q[b] }
AscendingSeqs(n, len) ==
    { q \in [ 1..len -> 1..n ] : \A a, b \in 1..len : a < b => q[a] < q[b] }
JoinIndexSeqs(n) ==
    UNION { [ 1..len -> { None, Some(1), Some(n) } ] : len \in 0..MaxJoin }

\* ------------------------------------------------------------- state
VARIABLES
    gen,               \* the generator's frame
    jm,                \* Option<JoinMessage>: the joining party's message
    keys,              \* the Keys distribute returned with it
    local_key,         \* Option<LocalKey>: what the last collect returned
    calls,             \* collect calls made so far
    pc,                \* position in collect, "idle" outside it
    refresh_messages, paillier_key, join_messages, t, n,   \* its arguments
    party_index, cipher_text_sum, li_vec, new_share, keys_linear,
    pk_vec, paillier_key_vec, h1_h2_ntilde_vec,            \* its locals
    join_scanned,      \* join messages whose get_party_index was called
    outcome,           \* "none", "Ok", an FsDkrError, or "panic"
    done,              \* the steps of this call that have run, in order
    jm_at_call,        \* the JoinMessage as it was when collect was called
    dealt              \* the senders' secret and polynomials

caller == << jm, keys, local_key, calls >>
args == << refresh_messages, paillier_key, join_messages, t, n >>
locals == << party_index, cipher_text_sum, li_vec, new_share, keys_linear,
             pk_vec, paillier_key_vec, h1_h2_ntilde_vec, join_scanned >>
vars == << gen, caller, pc, args, locals, outcome, done, jm_at_call, dealt >>

NoDeal == [ secret |-> 0, polys |-> << >> ]
NoKeysLinear == [ x_i |-> 0, y |-> 0 ]

FreshLocals ==
    /\ party_index = 0
    /\ cipher_text_sum = 0
    /\ li_vec = << >>
    /\ new_share = 0
    /\ keys_linear = NoKeysLinear
    /\ pk_vec = << >>
    /\ paillier_key_vec = << >>
    /\ h1_h2_ntilde_vec = << >>
    /\ join_scanned = 0

GenIdle == gen = [ pc |-> "idle" ]

NoCall ==
    /\ pc = "idle"
    /\ refresh_messages = << >>
    /\ paillier_key = None
    /\ join_messages = << >>
    /\ t = 0
    /\ n = 0
    /\ FreshLocals
    /\ outcome = "none"
    /\ done = << >>
    /\ jm_at_call = None
    /\ dealt = NoDeal

\* ---------------------------------------------- the generator's loop
GenPhi == (gen.p - 1) * (gen.q - 1)

\* Paillier::keypair and the sample of h1; the loop is entered
GenInit ==
    /\ \E p \in SmallPrimes, q \in SmallPrimes :
        /\ p # q
        /\ \E h1 \in 0..(p * q - 1) :
            gen = [ pc |-> "loop", p |-> p, q |-> q, h1 |-> h1,
                    tries |-> 0, xhi |-> None, xhi_inv |-> None,
                    out |-> None ]
    /\ jm = None /\ keys = None /\ local_key = None /\ calls = 0
    /\ NoCall

\* loop body, None arm: continue
SampleRetry ==
    /\ gen.pc = "loop"
    /\ gen.tries < MaxTries
    /\ \E x \in 0..(GenPhi - 1) :
        /\ ModInv(x, GenPhi) = None
        /\ gen' = [ gen EXCEPT !.tries = @ + 1, !.xhi = Some(x) ]
    /\ UNCHANGED << caller, pc, args, locals, outcome, done, jm_at_call, dealt >>

\* loop body, Some arm: break; then the rest of generate_h1_h2_n_tilde and
\* of generate_dlog_statement_proofs
SampleBreak ==
    /\ gen.pc = "loop"
    /\ \E x \in 0..(GenPhi - 1) :
        /\ ModInv(x, GenPhi) # None
        /\ gen' = [ gen EXCEPT
                      !.pc = "done",
                      !.xhi = Some(x),
                      !.xhi_inv = ModInv(x, GenPhi),
                      !.out = Some(DlogStatementProofs(
                                H1H2NTilde(gen.p, gen.q, gen.h1, x,
                                           Unwrap(ModInv(x, GenPhi))))) ]
    /\ UNCHANGED << caller, pc, args, locals, outcome, done, jm_at_call, dealt >>

GenNext == SampleRetry \/ SampleBreak

SpecGen == GenInit /\ [][GenNext]_vars

\* ------------------------------------------------- collect, step by step
Self == Unwrap(jm)

\* line 122: validate_collect(...)?
Validate ==
    /\ pc = "validate"
    /\ done' = Append(done, "validate")
    /\ IF ValidateCollect(refresh_messages, t, n)
       THEN pc' = "unwrap" /\ outcome' = outcome
       ELSE pc' = "returned" /\ outcome' = "ValidationError"
    /\ UNCHANGED << gen, caller, args, locals, jm_at_call, dealt >>

\* line 123: self.party_index.unwrap()
UnwrapIndex ==
    /\ pc = "unwrap"
    /\ done' = Append(done, "unwrap")
    /\ IF IsSome(Self.party_index)
       THEN /\ party_index' = Unwrap(Self.party_index)
            /\ pc' = "join_check"
            /\ outcome' = outcome
       ELSE /\ party_index' = party_index
            /\ pc' = "panicked"
            /\ outcome' = "panic"
    /\ UNCHANGED << gen, caller, args, cipher_text_sum, li_vec, new_share,
                    keys_linear, pk_vec, paillier_key_vec, h1_h2_ntilde_vec,
                    join_scanned, jm_at_call, dealt >>

\* lines 125-127: get_party_index()? on every join message
CheckJoinIndices ==
    /\ pc = "join_check"
    /\ done' = Append(done, "join_check")
    /\ LET bad == FirstUnassigned(join_messages)
       IN IF bad = 0
          THEN /\ join_scanned' = Len(join_messages)
               /\ pc' = "ciphertext_sum"
               /\ outcome' = outcome
          ELSE /\ join_scanned' = bad
               /\ pc' = "returned"
               /\ outcome' = GetPartyIndex(join_messages[bad]).err
    /\ UNCHANGED << gen, caller, args, party_index, cipher_text_sum, li_vec,
                    new_share, keys_linear, pk_vec, paillier_key_vec,
                    h1_h2_ntilde_vec, jm_at_call, dealt >>

\* lines 129-139: get_ciphertext_sum
CiphertextSum ==
    /\ pc = "ciphertext_sum"
    /\ done' = Append(done, "ciphertext_sum")
    /\ IF CiphertextSumDefined(refresh_messages, party_index)
       THEN LET r == GetCiphertextSum(refresh_messages, party_index, t,
                                      paillier_key.ek)
            IN /\ cipher_text_sum' = r.cipher_text_sum
               /\ li_vec' = r.li_vec
               /\ pc' = "decrypt"
               /\ outcome' = outcome
       ELSE /\ UNCHANGED << cipher_text_sum, li_vec >>
            /\ pc' = "panicked"
            /\ outcome' = "panic"
    /\ UNCHANGED << gen, caller, args, party_index, new_share, keys_linear,
                    pk_vec, paillier_key_vec, h1_h2_ntilde_vec, join_scanned,
                    jm_at_call, dealt >>

\* lines 140-142: Paillier::decrypt
DecryptShare ==
    /\ pc = "decrypt"
    /\ done' = Append(done, "decrypt")
    /\ new_share' = Decrypt(paillier_key.dk, cipher_text_sum)
    /\ pc' = "keys_linear"
    /\ UNCHANGED << gen, caller, args, party_index, cipher_text_sum, li_vec,
                    keys_linear, pk_vec, paillier_key_vec, h1_h2_ntilde_vec,
                    join_scanned, outcome, jm_at_call, dealt >>

\* lines 144-151
KeysLinear ==
    /\ pc = "keys_linear"
    /\ done' = Append(done, "keys_linear")
    /\ keys_linear' = KeysLinearOf(new_share)
    /\ pc' = "pk_vec"
    /\ UNCHANGED << gen, caller, args, party_index, cipher_text_sum, li_vec,
                    new_share, pk_vec, paillier_key_vec, h1_h2_ntilde_vec,
                    join_scanned, outcome, jm_at_call, dealt >>

\* lines 152-161
PkVec ==
    /\ pc = "pk_vec"
    /\ done' = Append(done, "pk_vec")
    /\ pk_vec' = PkVecOf(refresh_messages, li_vec, t, n)
    /\ pc' = "key_vecs"
    /\ UNCHANGED << gen, caller, args, party_index, cipher_text_sum, li_vec,
                    new_share, keys_linear, paillier_key_vec, h1_h2_ntilde_vec,
                    join_scanned, outcome, jm_at_call, dealt >>

\* lines 163-210: the two maps and the two vectors; the unwrap of a join
\* message's index at line 170 panics on None
KeyVecs ==
    /\ pc = "key_vecs"
    /\ done' = Append(done, "key_vecs")
    /\ IF \E j \in 1..Len(join_messages) : join_messages[j].party_index = None
       THEN /\ UNCHANGED << paillier_key_vec, h1_h2_ntilde_vec >>
            /\ pc' = "panicked"
            /\ outcome' = "panic"
       ELSE LET parties == AvailableParties(refresh_messages, party_index,
                                            paillier_key.ek, join_messages)
                statements == AvailableStatements(refresh_messages, party_index,
                                                  Self, join_messages)
                missing == { k \in 1..n : MapGet(statements, k) = None }
            IN /\ paillier_key_vec' = PaillierKeyVecOf(parties, n)
               /\ \E fresh \in [ missing -> FreshStatements ] :
                    h1_h2_ntilde_vec' = StatementVecOf(statements, n, fresh)
               /\ pc' = "pk_check"
               /\ outcome' = outcome
    /\ UNCHANGED << gen, caller, args, party_index, cipher_text_sum, li_vec,
                    new_share, keys_linear, pk_vec, join_scanned, jm_at_call,
                    dealt >>

\* lines 212-216
CheckPublicKeys ==
    /\ pc = "pk_check"
    /\ done' = Append(done, "pk_check")
    /\ IF PublicKeysAgree(refresh_messages)
       THEN pc' = "assemble" /\ outcome' = outcome
       ELSE pc' = "returned" /\ outcome' = "BroadcastedPublicKeyError"
    /\ UNCHANGED << gen, caller, args, locals, jm_at_call, dealt >>

LocalKeyOfZeroBased(vss_scheme) ==
    [ paillier_dk |-> paillier_key.dk,
      pk_vec |-> pk_vec,
      keys_linear |-> keys_linear,
      paillier_key_vec |-> paillier_key_vec,
      y_sum_s |-> refresh_messages[1].public_key,
      h1_h2_n_tilde_vec |-> h1_h2_ntilde_vec,
      vss_scheme |-> vss_scheme,
      i |-> AsU16(party_index - 1),
      t |-> AsU16(t),
      n |-> AsU16(n) ]

\* what lines 221-232 assemble
LocalKeyOf(vss_scheme) ==
    [ paillier_dk |-> paillier_key.dk,
      pk_vec |-> pk_vec,
      keys_linear |-> keys_linear,
      paillier_key_vec |-> paillier_key_vec,
      y_sum_s |-> refresh_messages[1].public_key,
      h1_h2_n_tilde_vec |-> h1_h2_ntilde_vec,
      vss_scheme |-> vss_scheme,
      i |-> AsU16(party_index),
      t |-> AsU16(t),
      n |-> AsU16(n) ]

\* lines 218-234: VerifiableSS::share, the LocalKey, Ok(local_key)
Assemble ==
    /\ pc = "assemble"
    /\ done' = Append(done, "assemble")
    /\ \E seed \in 0..MaxSeed :
        local_key' = Some(LocalKeyOf(VssShare(t, n, keys_linear.x_i, seed)))
    /\ pc' = "returned"
    /\ outcome' = "Ok"
    /\ UNCHANGED << gen, jm, keys, calls, args, locals, jm_at_call, dealt >>

CollectNext ==
    \/ Validate
    \/ UnwrapIndex
    \/ CheckJoinIndices
    \/ CiphertextSum
    \/ DecryptShare
    \/ KeysLinear
    \/ PkVec
    \/ KeyVecs
    \/ CheckPublicKeys
    \/ Assemble

\* ------------------------------------- collect called on arbitrary input
\* the caller's JoinMessage after the external index assignment
AssignedJoinMessage(kp, setup, index) ==
    [ JoinMessageOf(kp, setup) EXCEPT !.party_index = index ]

\* the state at the entry of collect(self, msgs, kp, joins, tt, nn)
AtEntry(self, kp, msgs, joins, tt, nn, deal) ==
    /\ gen = [ pc |-> "idle" ]
    /\ jm = Some(self)
    /\ keys = Some(kp)
    /\ local_key = None
    /\ calls = 1
    /\ pc = "validate"
    /\ refresh_messages = msgs
    /\ paillier_key = kp
    /\ join_messages = joins
    /\ t = tt
    /\ n = nn
    /\ FreshLocals
    /\ outcome = "none"
    /\ done = << >>
    /\ jm_at_call = Some(self)
    /\ dealt = deal

OwnKey == PaillierKeys(11, 19)
OwnSetup == Generated(3, 5, 2, 3)

\* collect on batches whose structure varies: the number and the indices of
\* the senders, a deviating public_key in the first or the last message, the
\* caller's index (unset, in 1..n, or n+1), the join messages and their
\* indices (unset, 1 or n)
InitCollect ==
    \E nn \in 2..MaxN, tt \in 1..MaxT :
        /\ tt < nn
        /\ \E len \in tt..nn :
            \E indices \in AscendingSeqs(nn, len),
               deviant \in { 0, 1, len },
               own \in { None } \cup { Some(k) : k \in 1..(nn + 1) },
               jidx \in JoinIndexSeqs(nn) :
                LET seeds == [ j \in 1..len |-> j % (MaxSeed + 1) ]
                IN AtEntry(AssignedJoinMessage(OwnKey, OwnSetup, own), OwnKey,
                           Batch(3, 1, indices, seeds, deviant, OwnKey.ek, tt, nn),
                           [ j \in 1..Len(jidx) |-> PeerJoinMessage(j, jidx[j]) ],
                           tt, nn,
                           [ secret |-> 3,
                             polys |-> Polys(3, 1, indices, seeds, tt) ])

SpecCollect == InitCollect /\ [][CollectNext]_vars

\* collect on honest batches whose secret, polynomials and sender order vary
InitShare ==
    \E nn \in 2..MaxN, tt \in 1..MaxT :
        /\ tt < nn
        /\ \E len \in (tt + 1)..nn :
            \E indices \in InjectiveSeqs(nn, len),
               s \in 0..(CurveOrder - 1),
               pseed \in 0..MaxSeed,
               own \in 1..nn :
                LET seeds == [ j \in 1..len |-> pseed + j ]
                IN AtEntry(AssignedJoinMessage(OwnKey, OwnSetup, Some(own)), OwnKey,
                           Batch(s, pseed, indices, seeds, 0, OwnKey.ek, tt, nn),
                           << >>, tt, nn,
                           [ secret |-> s,
                             polys |-> Polys(s, pseed, indices, seeds, tt) ])

SpecShare == InitShare /\ [][CollectNext]_vars

\* ------------------------------------------- the joining party's lifecycle
Init ==
    /\ GenIdle
    /\ jm = None /\ keys = None /\ local_key = None /\ calls = 0
    /\ NoCall

\* distribute(): lines 82-103
Distribute ==
    /\ pc = "idle"
    /\ \E d \in OwnDraws :
        /\ jm' = Some(JoinMessageOf(d.keys, d.setup))
        /\ keys' = Some(d.keys)
    /\ local_key' = None
    /\ UNCHANGED << gen, calls, pc, args, locals, outcome, done, jm_at_call, dealt >>

\* the coordination layer sets party_index (a pub(crate) field)
AssignIndex ==
    /\ pc = "idle"
    /\ jm # None
    /\ \E k \in 1..3 : jm' = Some([ Self EXCEPT !.party_index = Some(k) ])
    /\ UNCHANGED << gen, keys, local_key, calls, pc, args, locals, outcome, done,
                    jm_at_call, dealt >>

\* the caller calls self.collect(...) with the Keys distribute gave it
CallCollect ==
    /\ pc = "idle"
    /\ jm # None
    /\ calls < MaxCalls
    /\ calls' = calls + 1
    /\ \E nn \in 2..3, deviant \in 0..1, jidx \in { << >>, << None >>, << Some(1) >> } :
        LET indices == [ j \in 1..2 |-> j ]
            seeds == [ j \in 1..2 |-> 0 ]
        IN /\ refresh_messages' =
                 Batch(3, 1, indices, seeds, 2 * deviant, Unwrap(keys).ek, 1, nn)
           /\ join_messages' = [ j \in 1..Len(jidx) |-> PeerJoinMessage(j, jidx[j]) ]
           /\ t' = 1
           /\ n' = nn
           /\ dealt' = [ secret |-> 3, polys |-> Polys(3, 1, indices, seeds, 1) ]
    /\ paillier_key' = Unwrap(keys)
    /\ pc' = "validate"
    /\ party_index' = 0
    /\ cipher_text_sum' = 0
    /\ li_vec' = << >>
    /\ new_share' = 0
    /\ keys_linear' = NoKeysLinear
    /\ pk_vec' = << >>
    /\ paillier_key_vec' = << >>
    /\ h1_h2_ntilde_vec' = << >>
    /\ join_scanned' = 0
    /\ outcome' = "none"
    /\ done' = << >>
    /\ jm_at_call' = jm
    /\ UNCHANGED << gen, jm, keys, local_key >>

\* collect has returned Ok or Err: its frame is gone and the caller goes on
Return ==
    /\ pc = "returned"
    /\ pc' = "idle"
    /\ refresh_messages' = << >>
    /\ paillier_key' = None
    /\ join_messages' = << >>
    /\ t' = 0
    /\ n' = 0
    /\ party_index' = 0
    /\ cipher_text_sum' = 0
    /\ li_vec' = << >>
    /\ new_share' = 0
    /\ keys_linear' = NoKeysLinear
    /\ pk_vec' = << >>
    /\ paillier_key_vec' = << >>
    /\ h1_h2_ntilde_vec' = << >>
    /\ join_scanned' = 0
    /\ outcome' = "none"
    /\ done' = << >>
    /\ jm_at_call' = None
    /\ dealt' = NoDeal
    /\ UNCHANGED << gen, caller >>

Next ==
    \/ Distribute
    \/ AssignIndex
    \/ CallCollect
    \/ Return
    \/ CollectNext

Spec == Init /\ [][Next]_vars

\* ------------------------------------------------------------ properties
Ended == pc \in { "returned", "panicked" }
CalledSelf == Unwrap(jm_at_call)
ErrorKinds == { "NewPartyUnassignedIndexError", "BroadcastedPublicKeyError",
                "ValidationError" }
ReconstructionSteps == { "ciphertext_sum", "decrypt", "keys_linear", "pk_vec",
                         "key_vecs", "assemble" }
StepsDone == { done[k] : k \in 1..Len(done) }
Before(a, b) ==
    \E i, j \in 1..Len(done) : i < j /\ done[i] = a /\ done[j] = b

\* the preconditions of collect other than the one a claim is about
OwnIndexSet == jm_at_call # None /\ IsSome(CalledSelf.party_index)
OwnIndexInRange == OwnIndexSet /\ Unwrap(CalledSelf.party_index) \in 1..n
JoinIndicesSet == \A j \in 1..Len(join_messages) : IsSome(join_messages[j].party_index)
Validated == ValidateCollect(refresh_messages, t, n)
KeysDiffer ==
    \E j \in 1..Len(refresh_messages) :
        refresh_messages[j].public_key # refresh_messages[1].public_key

\* C1: a collect on a JoinMessage whose party_index is None, with refresh
\* messages that pass validate_collect, returns the error value
\* NewPartyUnassignedIndexError: no panic, no LocalKey.
C1_UnsetIndexIsAnError ==
    (Ended /\ jm_at_call # None /\ ~IsSome(CalledSelf.party_index) /\ Validated)
        => /\ pc = "returned"
           /\ outcome = "NewPartyUnassignedIndexError"
           /\ local_key = None

\* C2 as stated: when some refresh message's public_key differs from that of
\* the first and every other precondition holds, collect returns
\* BroadcastedPublicKeyError and has not decrypted (nor run a later step).
C2_RejectedBeforeDecryption ==
    (Ended /\ KeysDiffer /\ Validated /\ OwnIndexInRange /\ JoinIndicesSet)
        => /\ outcome = "BroadcastedPublicKeyError"
           /\ "decrypt" \notin StepsDone
           /\ "keys_linear" \notin StepsDone
           /\ "pk_vec" \notin StepsDone
           /\ "key_vecs" \notin StepsDone

\* C2 amended: in that case collect returns BroadcastedPublicKeyError and no
\* LocalKey; the comparison runs after the decryption and after pk_vec and
\* the key vectors are built, and before the re-sharing and the assembly of
\* the LocalKey, which never run.
C2_RejectedAfterDecryption ==
    (Ended /\ KeysDiffer /\ Validated /\ OwnIndexInRange /\ JoinIndicesSet)
        => /\ pc = "returned"
           /\ outcome = "BroadcastedPublicKeyError"
           /\ local_key = None
           /\ Before("decrypt", "pk_check")
           /\ Before("pk_vec", "pk_check")
           /\ Before("key_vecs", "pk_check")
           /\ "assemble" \notin StepsDone

C2_Witness ==
    /\ pc = "returned"
    /\ outcome = "BroadcastedPublicKeyError"
    /\ new_share # 0
    /\ Len(refresh_messages) > t + 1

\* C3: with the caller's index set and validated refresh messages, a join
\* message without an index makes collect return NewPartyUnassignedIndexError
\* at the first such entry, before any reconstruction step and without a
\* LocalKey, whatever the public keys of the refresh messages are.
C3_UnsetJoinIndexRejectedFirst ==
    (OwnIndexSet /\ Validated /\ ~JoinIndicesSet)
        => /\ StepsDone \cap ReconstructionSteps = {}
           /\ cipher_text_sum = 0 /\ new_share = 0 /\ pk_vec = << >>
           /\ paillier_key_vec = << >> /\ h1_h2_ntilde_vec = << >>
           /\ local_key = None
           /\ outcome \in { "none", "NewPartyUnassignedIndexError" }
           /\ Ended =>
                /\ pc = "returned"
                /\ outcome = "NewPartyUnassignedIndexError"
                /\ done = << "validate", "unwrap", "join_check" >>
                /\ ~IsSome(join_messages[join_scanned].party_index)
                /\ \A j \in 1..(join_scanned - 1) :
                        IsSome(join_messages[j].party_index)

C3_Witness ==
    /\ pc = "returned"
    /\ outcome = "NewPartyUnassignedIndexError"
    /\ join_scanned = 2
    /\ KeysDiffer

\* the senders collect interpolates over and the polynomial their
\* contributions add up to
Senders == [ j \in 1..(t + 1) |-> refresh_messages[j].party_index ]
Lambda == [ j \in 1..(t + 1) |-> Lagrange(Senders, j) ]
NewPoly ==
    [ m \in 1..(t + 1) |->
        SumTo([ j \in 1..(t + 1) |-> Lambda[j] * dealt.polys[j][m] ], t + 1)
            % CurveOrder ]

\* C4: on honest refresh messages, with li_vec the Lagrange coefficients of
\* the first t+1 senders in message order, pk_vec has n entries, entry k-1 is
\* the sum over the first t+1 messages of li_vec[j] * points_committed_vec[k-1],
\* which is the public share of party k under the new polynomial, and the
\* caller's own entry is keys_linear.y.
C4_PkVecConsistent ==
    (outcome = "Ok" /\ li_vec = Lambda)
        => LET lk == Unwrap(local_key)
           IN /\ Len(lk.pk_vec) = n
              /\ \A k \in 1..n :
                    /\ lk.pk_vec[k] =
                         SumTo([ j \in 1..(t + 1) |->
                                  li_vec[j] * refresh_messages[j].points_committed_vec[k] ],
                               t + 1) % CurveOrder
                    /\ lk.pk_vec[k] = PointMul(Generator, EvalPoly(NewPoly, k))
              /\ lk.pk_vec[lk.i] = lk.keys_linear.y
              /\ lk.keys_linear.y = PointMul(Generator, lk.keys_linear.x_i)

C4_Witness ==
    /\ outcome = "Ok"
    /\ li_vec = Lambda
    /\ Len(refresh_messages) > t + 1
    /\ Senders[1] > Senders[2]
    /\ \E k \in 1..n : Unwrap(local_key).pk_vec[k] # 0

\* C5: for honest refresh messages re-sharing the secret s, keys_linear.x_i
\* is the new sharing polynomial (the Lagrange-weighted sum of the senders'
\* polynomials, whose value at 0 is s) evaluated at the caller's index and
\* reduced into the scalar field, keys_linear.y = x_i*G, and the share is the
\* decryption under the caller's key of the Lagrange-weighted combination of
\* the ciphertexts addressed to that index.
C5_ShareIsNewPolynomialAtIndex ==
    outcome = "Ok"
        => LET lk == Unwrap(local_key)
               i == Unwrap(CalledSelf.party_index)
           IN /\ EvalPoly(NewPoly, 0) = dealt.secret
              /\ lk.keys_linear.x_i = EvalPoly(NewPoly, i)
              /\ lk.keys_linear.x_i \in 0..(CurveOrder - 1)
              /\ lk.keys_linear.y = PointMul(Generator, lk.keys_linear.x_i)
              /\ new_share =
                   SumTo([ j \in 1..(t + 1) |->
                            Lambda[j] * EvalPoly(dealt.polys[j], i) ], t + 1)
                       % paillier_key.ek.n
              /\ new_share = Decrypt(Unwrap(keys).dk, cipher_text_sum)

C5_Witness ==
    /\ outcome = "Ok"
    /\ new_share >= CurveOrder
    /\ dealt.secret # 0
    /\ Unwrap(local_key).keys_linear.x_i # dealt.secret

\* the public material each source supplies for the party k
RefreshEksFor(k) ==
    { refresh_messages[j].ek :
        j \in { a \in 1..Len(refresh_messages) : refresh_messages[a].party_index = k } }
RefreshStatementsFor(k) ==
    { refresh_messages[j].dlog_statement :
        j \in { a \in 1..Len(refresh_messages) : refresh_messages[a].party_index = k } }
JoinEksFor(k) ==
    { join_messages[j].ek :
        j \in { a \in 1..Len(join_messages) : join_messages[a].party_index = Some(k) } }
JoinStatementsFor(k) ==
    { join_messages[j].dlog_statement_base_h1 :
        j \in { a \in 1..Len(join_messages) : join_messages[a].party_index = Some(k) } }
OwnEksFor(k) ==
    IF CalledSelf.party_index = Some(k) THEN { paillier_key.ek } ELSE {}
OwnStatementsFor(k) ==
    IF CalledSelf.party_index = Some(k) THEN { CalledSelf.dlog_statement_base_h1 } ELSE {}
EksFor(k) == RefreshEksFor(k) \cup OwnEksFor(k) \cup JoinEksFor(k)
StatementsFor(k) ==
    RefreshStatementsFor(k) \cup OwnStatementsFor(k) \cup JoinStatementsFor(k)

\* every statement the generator can return for the primes of SmallPrimes
AllGeneratedStatements ==
    UNION { { Generated(w[1], w[2], h1, x).base_h1 :
                h1 \in 0..(w[1] * w[2] - 1),
                x \in { y \in 0..((w[1] - 1) * (w[2] - 1) - 1) :
                          ModInv(y, (w[1] - 1) * (w[2] - 1)) # None } } :
            w \in { v \in SmallPrimes \X SmallPrimes : v[1] # v[2] } }

\* C6: in every LocalKey returned, paillier_key_vec and h1_h2_n_tilde_vec
\* have exactly n entries; the entry of an index some refresh message, the
\* caller or some join message carries is material one of them supplied for
\* that index; the entry of an index none of them carries is the zero key
\* and a freshly generated statement: never an error, never left out.
C6_DenseWithPlaceholders ==
    outcome = "Ok"
        => LET lk == Unwrap(local_key)
           IN /\ Len(lk.paillier_key_vec) = n
              /\ Len(lk.h1_h2_n_tilde_vec) = n
              /\ \A k \in 1..n :
                    IF EksFor(k) # {}
                    THEN /\ lk.paillier_key_vec[k] \in EksFor(k)
                         /\ lk.h1_h2_n_tilde_vec[k] \in StatementsFor(k)
                    ELSE /\ lk.paillier_key_vec[k] = ZeroKey
                         /\ lk.h1_h2_n_tilde_vec[k] \in AllGeneratedStatements
                         /\ \A m \in 1..n :
                                lk.h1_h2_n_tilde_vec[k] \notin StatementsFor(m)

C6_Witness ==
    /\ outcome = "Ok"
    /\ \E k, m \in 1..n :
        /\ k < m
        /\ EksFor(k) = {} /\ EksFor(m) # {}
        /\ Unwrap(local_key).paillier_key_vec[k] = ZeroKey

\* the lifecycle state of a JoinMessage: Distributed while its index is
\* unset, IndexAssigned once it is set
PhaseOf(message) ==
    IF message = None THEN "Unjoined"
    ELSE IF IsSome(Unwrap(message).party_index) THEN "IndexAssigned"
    ELSE "Distributed"

\* C7: a JoinMessage whose index is unset is Distributed and its
\* get_party_index fails with NewPartyUnassignedIndexError; a LocalKey is
\* produced only by a collect called in IndexAssigned; a collect that does
\* not produce one has returned an error value and has left the JoinMessage,
\* its party_index included, as it was, and the caller goes on.
C7_Lifecycle ==
    /\ (jm # None /\ PhaseOf(jm) = "Distributed")
            => GetPartyIndex(Self).err = "NewPartyUnassignedIndexError"
    /\ outcome = "Ok" => PhaseOf(jm_at_call) = "IndexAssigned"
    /\ pc # "idle" => jm = jm_at_call
    /\ (Ended /\ outcome # "Ok")
            => /\ pc = "returned"
               /\ outcome \in ErrorKinds

\* C8: whenever collect returns a LocalKey, every refresh message of the
\* batch carried the same public_key, y_sum_s is that key, and (i, t, n) are
\* the caller's party_index and the t and n passed; no LocalKey is returned
\* for a batch whose messages disagree on public_key.
C8_GroupKeyAgreement ==
    (outcome = "Ok" \/ (pc # "idle" /\ local_key # None))
        => LET lk == Unwrap(local_key)
           IN /\ ~KeysDiffer
              /\ \A j \in 1..Len(refresh_messages) :
                    refresh_messages[j].public_key = lk.y_sum_s
              /\ lk.i = Unwrap(CalledSelf.party_index)
              /\ lk.t = t
              /\ lk.n = n

C8_Witness ==
    /\ outcome = "Ok"
    /\ Len(refresh_messages) > t + 1
    /\ Unwrap(local_key).i > 1

\* C9: the loop leaves only with an x invertible modulo phi and a failed
\* sample raises nothing; h2 = h1^x mod N and h1 = h2^x_inv mod N; the two
\* statements are (N, h1, h2) and (N, h2, h1) with N = p*q; the witnesses of
\* the two proofs are phi - x and phi - x_inv.
C9_SetupGeneration ==
    /\ gen.pc = "loop"
        => /\ gen.out = None
           /\ gen.tries > 0 => ModInv(Unwrap(gen.xhi), GenPhi) = None
    /\ gen.pc = "done"
        => LET x == Unwrap(gen.xhi)
               x_inv == Unwrap(gen.xhi_inv)
               N == gen.p * gen.q
               out == Unwrap(gen.out)
               h1 == out.base_h1.g
               h2 == out.base_h1.ni
           IN /\ x \in 0..(GenPhi - 1)
              /\ (x * x_inv) % GenPhi = 1
              /\ h1 = gen.h1
              /\ h2 = ModPow(h1, x, N)
              /\ h1 = ModPow(h2, x_inv, N)
              /\ out.base_h1 = [ N |-> N, g |-> h1, ni |-> h2 ]
              /\ out.base_h2 = [ N |-> N, g |-> h2, ni |-> h1 ]
              /\ out.proof_h1 = Prove(out.base_h1, GenPhi - x)
              /\ out.proof_h2 = Prove(out.base_h2, GenPhi - x_inv)

C9_Witness ==
    /\ gen.pc = "done"
    /\ gen.tries > 0
    /\ Unwrap(gen.xhi) # Unwrap(gen.xhi_inv)
    /\ gen.h1 % gen.p = 0 /\ gen.h1 # 0

\* C10: in every LocalKey returned, the entries of paillier_key_vec and of
\* h1_h2_n_tilde_vec at position party_index-1 are the caller's own
\* encryption key and the caller's own dlog_statement_base_h1.
C10_OwnMaterialAtOwnIndex ==
    outcome = "Ok"
        => LET lk == Unwrap(local_key)
               i == Unwrap(CalledSelf.party_index)
           IN /\ i \in 1..n
              /\ lk.paillier_key_vec[i] = paillier_key.ek
              /\ lk.h1_h2_n_tilde_vec[i] = CalledSelf.dlog_statement_base_h1

====
